---- MODULE Spec2Model ----
(***************************************************************************)
(* Webhook receivers of voizMatebk: five revisions of one request handler  *)
(* that turn a call event into an email notification.                      *)
(*                                                                         *)
(*   vapi_enrich   src/unnamed/part_000, lines 1-613                       *)
(*   vapi          src/unnamed/part_000, lines 614-1142                    *)
(*   retell_first  src/unnamed/part_001                                    *)
(*   retell        src/pages/api/retell-webhook.js, lines 1-546            *)
(*   metadata      src/pages/api/retell-webhook.js, lines 547-700          *)
(*                                                                         *)
(* A JavaScript string whose characters matter (a phone number, an email   *)
(* address) is a sequence of tokens; an object is a record whose DOMAIN    *)
(* holds exactly the fields that are present; a step of a handler runs     *)
(* from one await to the next.                                             *)
(***************************************************************************)
EXTENDS Integers, Sequences, FiniteSets, TLC

VARIABLES
  env,          \* process.env, fixed at process start
  pc,           \* idle, received, fetch, readFile, sendMail (at an await) or responded
  req,          \* the request being served (the last one while idle)
  res,          \* the responses written for req, in order
  outbox,       \* the messages handed to transporter.sendMail for req, in order
  trace,        \* the steps run for req, in order
  callDetails,  \* sendEmail's local: the object fetched from the call-detail API
  contacts,     \* sendEmail's local: the parsed directory, while sendEmail awaits sendMail
  contact,      \* the handler's local: <<c>> for the contact the mail goes to, or << >>
  served,       \* number of requests answered so far
  fmtIn,        \* input of the formatting helpers (specification FormatSpec)
  fmtOut,       \* their output
  outcomes,     \* history, kept by SecretsSpec and ConcurrentSpec only: per run of
                \* req, what the collaborators returned or threw, in order
  parked        \* << >>, or <<c>> for the invocation that is suspended at an await
                \* while another one runs (ConcurrentSpec)

vars ==
  <<env, pc, req, res, outbox, trace, callDetails, contacts, contact, served, fmtIn, fmtOut,
    outcomes, parked>>

\* --------------------------------------------------------------- bounds
MaxRequests == 2       \* requests served in one behaviour
MaxContacts == 2       \* entries of data/contacts.json
MaxHalfSeconds == 250  \* durations formatted: up to MaxHalfSeconds * 500 ms

\* ------------------------------------------------------- values, objects
EmptyObj == << >>
Has(o, f) == f \in DOMAIN o
\* o.f for a string held as a token sequence; UNDEF when the field is absent
UNDEF == <<"undefined">>
Get(o, f) == IF Has(o, f) THEN o[f] ELSE UNDEF
\* truthiness of a token-sequence value: undefined and '' are falsy
TruthySeq(v) == v /= UNDEF /\ v /= << >>
\* truthiness of o.f for a field holding a TLA+ string
TruthyStr(o, f) == Has(o, f) /\ o[f] /= ""
\* truthiness of o.f for a field holding a number
TruthyNum(o, f) == Has(o, f) /\ o[f] /= 0
\* String.prototype.includes for one character
Includes(s, ch) == \E i \in 1..Len(s) : s[i] = ch
\* a merge in which the first object's fields win
Spread_firstWins(a, b) == a @@ b
\* {...a, ...b}: b's fields win
Spread(a, b) == b @@ a

\* the text of a phone number or address, token by token
P1digits == <<"5","5","5","1","2","3","4","5","6","7">>
P1punct  == <<"5","5","5","-","1","2","3","-","4","5","6","7">>
P2digits == <<"5","5","5","9","9","9","0","0","0","0">>
BobEmail   == <<"bob", "@", "x.com">>
AliceEmail == <<"alice", "@", "x.com">>
OpsEmail   == <<"ops", "@", "x.com">>
MeEmail    == <<"me", "@", "gmail.com">>
NoAtEmail  == <<"nobody">>
Placeholder == <<"your-default-email", "@", "example.com">>

\* ------------------------------------------------------ process.env
GmailVars == {"GMAIL_CLIENT_ID", "GMAIL_CLIENT_SECRET", "GMAIL_REFRESH_TOKEN", "GMAIL_EMAIL"}
\* TZ: the time zone of the process, which Date.prototype.toLocaleString reads
EnvVars == GmailVars \cup {"DEFAULT_EMAIL", "TZ", "VAPI_API_KEY"}
TimeZones == { <<"UTC">>, <<"America/Chicago">> }
\* an unset variable reads as << >>: every use below only tests it for truthiness
EnvChoices ==
  { [v \in EnvVars |->
       IF v = "DEFAULT_EMAIL" THEN d
       ELSE IF v = "TZ" THEN tz
       ELSE IF v \in missing THEN << >>
       ELSE IF v = "GMAIL_EMAIL" THEN MeEmail ELSE <<v>>] :
    missing \in SUBSET GmailVars, d \in {<< >>, OpsEmail, NoAtEmail}, tz \in TimeZones }

DEFAULT_EMAIL == IF env["DEFAULT_EMAIL"] /= << >> THEN env["DEFAULT_EMAIL"] ELSE Placeholder

\* ------------------------------------------------------ formatting helpers
\* JavaScript's %: the sign of the dividend
JsRem(a, b) == IF a >= 0 THEN a % b ELSE -((-a) % b)

\* a formatter that rounds to the nearest second
formatDuration_round(ms) ==
  LET seconds == (ms + 500) \div 1000
      minutes == seconds \div 60
      remainingSeconds == JsRem(seconds, 60)
  IN ToString(minutes) \o "m " \o ToString(remainingSeconds) \o "s"

formatDuration(ms) ==
  LET seconds == ms \div 1000
      minutes == seconds \div 60
      remainingSeconds == JsRem(seconds, 60)
  IN ToString(minutes) \o "m " \o ToString(remainingSeconds) \o "s"

\* formatDuration(o.f): Math.floor(undefined / 1000) is NaN
formatDurationOf(o, f) == IF Has(o, f) THEN formatDuration(o[f]) ELSE "NaNm NaNs"

\* cost.toFixed(2) throws a TypeError unless cost is a number
formatCostThrows(o, f) == ~Has(o, f)
\* a formatter that does not pad the cents to two digits
formatCost_unpadded(cost) ==
  LET cents == (cost + 5) \div 10
  IN "$" \o ToString(cents \div 100) \o "." \o ToString(cents % 100)

\* amounts are held in thousandths of a dollar; toFixed(2) rounds to the cent
\* (an amount ending in exactly half a cent is rounded by its binary value in
\* JavaScript: no amount of the model ends so)
formatCost(cost) ==
  LET cents == (cost + 5) \div 10
      frac == cents % 100
  IN "$" \o ToString(cents \div 100) \o "." \o (IF frac < 10 THEN "0" ELSE "") \o ToString(frac)

\* the offset of the process's time zone from UTC, in ms (standard time)
UtcOffset == IF env["TZ"] = <<"UTC">> THEN 0 ELSE -21600000
\* new Date(timestamp).toLocaleString(): the wall-clock time of the process's
\* time zone; an absent timestamp gives "Invalid Date"
formatTimestamp(o, f) ==
  IF Has(o, f) THEN <<"toLocaleString", o[f] + UtcOffset>> ELSE <<"Invalid Date">>

\* ------------------------------------------------------ request bodies
Methods == {"GET", "POST", "OPTIONS", "PUT", "DELETE"}
Callers == {UNDEF, P1digits, P2digits}

\* the optional fields of a flat call record, all present
FlatExtras ==
  [to |-> P2digits, startTime |-> 1000, endTime |-> 126000, duration |-> 125000,
   transcript |-> "hello", recordingUrl |-> "https://rec/1", summary |-> "short call",
   cost |-> 12500,
   logs |-> << [timestamp |-> 1000, message |-> "started"],
               [timestamp |-> 126000, message |-> "ended"] >>,
   metadata |-> [agent |-> "a1"]]

WithField(o, f, v) == IF v = UNDEF THEN o ELSE (f :> v) @@ o
WithStr(o, f, v) == IF v = "undefined" THEN o ELSE (f :> v) @@ o

\* Shape A: { id, status, from, to, duration, ... }
FlatBodies ==
  { WithStr(WithStr(WithField(x, "from", c), "status", st), "id", id) :
      id \in {"undefined", "c1"},
      st \in {"undefined", "completed", "in-progress", "failed"},
      c \in Callers,
      x \in {EmptyObj, [duration |-> 65000], FlatExtras, [cost |-> 0, transcript |-> ""]} }

FullCost ==
  [combined_cost |-> 12500, total_duration_unit_price |-> 2500,
   product_costs |-> << [product |-> "llm", cost |-> 10000], [product |-> "tts", cost |-> 2500] >>]
CallCosts ==
  { FullCost,
    EmptyObj,                                                        \* call_cost: {}
    [combined_cost |-> 12500, total_duration_unit_price |-> 2500] } \* no product_costs

RetellBase(status) ==
  [call_id |-> "r1", call_type |-> "web_call", call_status |-> status, duration_ms |-> 65000]
RetellExtras ==
  [transcript |-> "hello", recording_url |-> "https://rec/1", public_log_url |-> "https://log/1",
   start_timestamp |-> 1000, end_timestamp |-> 66000, disconnection_reason |-> "user_hangup",
   call_analysis |-> [call_summary |-> "short call", user_sentiment |-> "Positive",
                      call_successful |-> TRUE, in_voicemail |-> FALSE]]
RetellCalls ==
  { WithField(RetellBase(st), "caller_number", c) : st \in {"ended", "ongoing"}, c \in Callers }
  \cup { Spread(RetellBase("ended"), Spread(RetellExtras, [call_cost |-> k])) : k \in CallCosts }
  \cup { Spread(RetellBase("ended"), [call_cost |-> k]) : k \in CallCosts }
  \cup { [call_type |-> "web_call"] }

\* Shape B: { event, call }
EventBodies ==
  { WithStr(x, "event", e) :
      e \in {"undefined", "call_started", "call_ended", "call_analyzed"},
      x \in {EmptyObj} \cup { [call |-> k] : k \in RetellCalls } }

\* Shape C: { call_metadata: { caller_number, agent_number, call_duration, call_status, call_id } }
MetaBodies ==
  { EmptyObj } \cup
  { [call_metadata |->
       WithField([agent_number |-> P2digits, call_duration |-> 65, call_status |-> st,
                  call_id |-> "m1"], "caller_number", c)] :
      st \in {"completed", "in-progress"}, c \in Callers }

Handlers == {"vapi_enrich", "vapi", "retell_first", "retell", "metadata"}
BodiesOf(h) ==
  IF h \in {"vapi_enrich", "vapi"} THEN FlatBodies
  ELSE IF h \in {"retell_first", "retell"} THEN EventBodies
  ELSE MetaBodies

\* a request: req.body is null or undefined when isNull (a JSON body "null", or
\* no parsed body); a body that is a string or a number reads as an object
\* without fields
Requests ==
  { [handler |-> h, method |-> m, isNull |-> FALSE, body |-> EmptyObj] :
      h \in Handlers, m \in Methods \ {"POST"} }
  \cup { [handler |-> h, method |-> "POST", isNull |-> TRUE, body |-> EmptyObj] : h \in Handlers }
  \cup UNION { { [handler |-> h, method |-> "POST", isNull |-> FALSE, body |-> b] : b \in BodiesOf(h) } :
               h \in Handlers }

NoRequest == [handler |-> "none", method |-> "none", isNull |-> FALSE, body |-> EmptyObj]

\* ------------------------------------------------------ data/contacts.json
ContactPool ==
  { [name |-> "Bob", number |-> P1punct, phone |-> P1punct, email |-> BobEmail],
    [name |-> "Alice", number |-> P2digits, phone |-> P2digits, email |-> AliceEmail],
    [name |-> "Carol", number |-> P2digits, phone |-> P2digits],
    [name |-> "Dan", number |-> P2digits, phone |-> P2digits, email |-> NoAtEmail],
    [name |-> "Eve", email |-> OpsEmail] }

Directories == UNION { [1..n -> ContactPool] : n \in 0..MaxContacts }
\* what reading and parsing the file gives: the array, or an exception
ReadOutcomes ==
  { [ok |-> TRUE, contacts |-> d] : d \in Directories } \cup { [ok |-> FALSE, contacts |-> << >>] }

\* ------------------------------------------------------ collaborators' outcomes
\* fetch(VAPI_API_URL/logs): the parsed JSON, or a network error / non-OK status
Enrichments == { EmptyObj, [summary |-> "from vapi"], [id |-> "other", from |-> P2digits] }
FetchOutcomes ==
  { [ok |-> TRUE, data |-> d, error |-> EmptyObj] : d \in Enrichments }
  \cup { [ok |-> FALSE, data |-> EmptyObj, error |-> [message |-> m]] :
           m \in {"fetch failed", "Vapi API error: 500"} }

\* transporter.sendMail(message): the provider's result, or a rejection
SendErrors ==
  { [message |-> "Invalid login", code |-> "EAUTH", response |-> "535", responseCode |-> 535,
     command |-> "AUTH XOAUTH2"],
    [message |-> "socket closed"] }
SendOutcomes(message) ==
  { [ok |-> TRUE, error |-> EmptyObj,
     info |-> [messageId |-> "<m1>", accepted |-> <<message.to>>, rejected |-> << >>]],
    [ok |-> TRUE, error |-> EmptyObj,
     info |-> [messageId |-> "<m2>", accepted |-> << >>, rejected |-> <<message.to>>]] }
  \cup { [ok |-> FALSE, error |-> e, info |-> EmptyObj] : e \in SendErrors }

\* ------------------------------------------------------ trackCallStatus
\* part_000: only logs; formatTimestamp and formatDuration never throw on JSON values
trackCallStatus_vapi_throws(call) == FALSE

\* retell-webhook.js: the log entry formats call_cost.combined_cost whenever
\* call_cost is present; toFixed on a missing combined_cost throws
trackCallStatus_retell_throws(call) ==
  Has(call, "call_cost") /\ formatCostThrows(call.call_cost, "combined_cost")

\* ------------------------------------------------------ validateGmailConfig
missingVars == { v \in GmailVars : env[v] = << >> }
validateGmailConfig == missingVars = {}

\* ------------------------------------------------------ contact resolution
\* Array.prototype.find over an index set of passing elements: << >> for
\* undefined, <<c>> for the first element that passes
FirstAt(s, I) ==
  IF I = {} THEN << >> ELSE << s[CHOOSE i \in I : \A j \in I : i <= j] >>

\* s.find(c => c[f] === v)
Find(s, f, v) == FirstAt(s, { i \in 1..Len(s) : Get(s[i], f) = v })

\* a resolver that falls back to the first entry of the directory
recipientEmail_fallbackFirst(callerNumber, dir) ==
  LET c == IF TruthySeq(callerNumber)
           THEN Find(dir, "number", callerNumber) ELSE << >>
  IN IF c /= << >> /\ TruthySeq(Get(c[1], "email")) THEN c[1].email
     ELSE IF Len(dir) > 0 /\ TruthySeq(Get(dir[1], "email")) THEN dir[1].email
     ELSE DEFAULT_EMAIL

\* sendEmail, "Find contact or use default"
recipientEmail(callerNumber, dir) ==
  IF TruthySeq(callerNumber) /\ Len(dir) > 0
  THEN LET c == Find(dir, "number", callerNumber)
       IN IF c /= << >> /\ TruthySeq(Get(c[1], "email")) THEN c[1].email ELSE DEFAULT_EMAIL
  ELSE DEFAULT_EMAIL

\* sendEmail, "Validate email address": the condition under which it throws
invalidRecipient(recipient) == ~TruthySeq(recipient) \/ ~Includes(recipient, "@")

\* ------------------------------------------------------ report rendering
Section(name, lines) == [section |-> name, lines |-> lines]
When(cond, sections) == IF cond THEN sections ELSE << >>
OrElse(o, f, dflt) == IF TruthySeq(Get(o, f)) THEN o[f] ELSE dflt

\* part_000 288-361 and 364-447: the text and the HTML report hold the same
\* sections in the same order; kind is "text" or "html"
formatEmailContent_vapiEnrich(call, kind) ==
  << Section("details",
       << <<"kind", kind>>, <<"From", env["GMAIL_EMAIL"]>>,
          <<"Caller", OrElse(call, "from", <<"Unknown">>)>>,
          <<"Recipient", OrElse(call, "to", <<"Unknown">>)>>,
          <<"Call ID", IF Has(call, "id") THEN call.id ELSE "undefined">>,
          <<"Status", IF Has(call, "status") THEN call.status ELSE "undefined">>,
          <<"Duration", formatDurationOf(call, "duration")>>,
          <<"Started", formatTimestamp(call, "startTime")>>,
          <<"Ended", formatTimestamp(call, "endTime")>> >>
       \o When(TruthyStr(call, "error"), << <<"Error", Get(call, "error")>> >>)) >>
  \o When(TruthyStr(call, "summary"), << Section("summary", << call.summary >>) >>)
  \o When(Has(call, "logs"),
          << Section("logs", [i \in 1..Len(call.logs) |->
                <<formatTimestamp(call.logs[i], "timestamp"), call.logs[i].message>>]) >>)
  \o When(Has(call, "metadata"),
          << Section("metadata", << call.metadata >>) >>)
  \o When(TruthyNum(call, "cost"), << Section("cost", << <<"Total Cost", formatCost(call.cost)>> >>) >>)
  \o When(TruthyStr(call, "transcript"), << Section("transcript", << call.transcript >>) >>)
  \o When(TruthyStr(call, "recordingUrl"), << Section("recording", << call.recordingUrl >>) >>)
  \o << Section("footer", << "Vapi AI Assistant" >>) >>

\* a renderer that puts the transcript before the cost
formatEmailContent_vapi_transcriptFirst(call, kind) ==
  << Section("details", << <<"kind", kind>>, <<"From", env["GMAIL_EMAIL"]>> >>) >>
  \o When(TruthyStr(call, "summary"), << Section("summary", << call.summary >>) >>)
  \o When(TruthyStr(call, "transcript"), << Section("transcript", << call.transcript >>) >>)
  \o When(TruthyNum(call, "cost"), << Section("cost", << <<"Total Cost", formatCost(call.cost)>> >>) >>)
  \o When(TruthyStr(call, "recordingUrl"), << Section("recording", << call.recordingUrl >>) >>)
  \o << Section("footer", << "Vapi AI Assistant" >>) >>

\* part_000 776-835 and 838-903: as above, without logs and metadata
formatEmailContent_vapi(call, kind) ==
  << Section("details",
       << <<"kind", kind>>, <<"From", env["GMAIL_EMAIL"]>>,
          <<"Caller", OrElse(call, "from", <<"Unknown">>)>>,
          <<"Recipient", OrElse(call, "to", <<"Unknown">>)>>,
          <<"Call ID", IF Has(call, "id") THEN call.id ELSE "undefined">>,
          <<"Status", IF Has(call, "status") THEN call.status ELSE "undefined">>,
          <<"Duration", formatDurationOf(call, "duration")>>,
          <<"Started", formatTimestamp(call, "startTime")>>,
          <<"Ended", formatTimestamp(call, "endTime")>> >>
       \o When(TruthyStr(call, "error"), << <<"Error", Get(call, "error")>> >>)) >>
  \o When(TruthyStr(call, "summary"), << Section("summary", << call.summary >>) >>)
  \o When(TruthyNum(call, "cost"), << Section("cost", << <<"Total Cost", formatCost(call.cost)>> >>) >>)
  \o When(TruthyStr(call, "transcript"), << Section("transcript", << call.transcript >>) >>)
  \o When(TruthyStr(call, "recordingUrl"), << Section("recording", << call.recordingUrl >>) >>)
  \o << Section("footer", << "Vapi AI Assistant" >>) >>

\* retell-webhook.js 198-203 and 340-350: the cost lines throw a TypeError unless
\* both amounts are numbers, product_costs is an array and each entry has a cost
costLines_throws(call) ==
  Has(call, "call_cost") /\
    \/ formatCostThrows(call.call_cost, "combined_cost")
    \/ formatCostThrows(call.call_cost, "total_duration_unit_price")
    \/ ~Has(call.call_cost, "product_costs")
    \/ \E i \in DOMAIN call.call_cost.product_costs :
          formatCostThrows(call.call_cost.product_costs[i], "cost")

costLines(call) ==
  << <<"Total Cost", formatCost(call.call_cost.combined_cost)>>,
     <<"Duration Cost", formatCost(call.call_cost.total_duration_unit_price)>> >>
  \o [i \in 1..Len(call.call_cost.product_costs) |->
       <<call.call_cost.product_costs[i].product, formatCost(call.call_cost.product_costs[i].cost)>>]

retellDetails(call, kind) ==
  Section("details",
    << <<"kind", kind>>, <<"From", env["GMAIL_EMAIL"]>>,
       <<"Call ID", IF Has(call, "call_id") THEN call.call_id ELSE "undefined">>,
       <<"Type", IF Has(call, "call_type") THEN call.call_type ELSE "undefined">>,
       <<"Status", IF Has(call, "call_status") THEN call.call_status ELSE "undefined">>,
       <<"Duration", formatDurationOf(call, "duration_ms")>>,
       <<"Started", formatTimestamp(call, "start_timestamp")>>,
       <<"Ended", formatTimestamp(call, "end_timestamp")>>,
       <<"Disconnection Reason",
         IF TruthyStr(call, "disconnection_reason") THEN call.disconnection_reason
         ELSE "Not specified">> >>)

retellAnalysis(call) ==
  When(Has(call, "call_analysis"), << Section("analysis", << call.call_analysis >>) >>)

retellLinks(call) ==
  Section("links",
    When(TruthyStr(call, "recording_url"), << <<"Recording", Get(call, "recording_url")>> >>)
    \o When(TruthyStr(call, "public_log_url"), << <<"Call Log", Get(call, "public_log_url")>> >>))

\* retell-webhook.js 156-219: the cost header and the links header are unconditional
formatEmailContent_retell(call) ==
  << retellDetails(call, "text") >>
  \o retellAnalysis(call)
  \o << Section("cost", IF Has(call, "call_cost") THEN costLines(call)
                        ELSE << "No cost information available" >>) >>
  \o When(TruthyStr(call, "transcript"), << Section("transcript", << call.transcript >>) >>)
  \o << retellLinks(call) >>
  \o << Section("footer", << "Retell Voice Agent" >>) >>

\* retell-webhook.js 298-369: the cost section only when call_cost is present
formatEmailContentHtml_retell(call) ==
  << retellDetails(call, "html") >>
  \o retellAnalysis(call)
  \o When(Has(call, "call_cost"), << Section("cost", costLines(call)) >>)
  \o When(TruthyStr(call, "transcript"), << Section("transcript", << call.transcript >>) >>)
  \o << retellLinks(call) >>
  \o << Section("footer", << "Retell Voice Agent" >>) >>

\* part_001 183-194: the inline text of the first event/call revision
emailContent_retellFirst(call) ==
  << Section("details",
       << <<"Call ID", IF Has(call, "call_id") THEN call.call_id ELSE "undefined">>,
          <<"Type", IF Has(call, "call_type") THEN call.call_type ELSE "undefined">>,
          <<"Status", IF Has(call, "call_status") THEN call.call_status ELSE "undefined">>,
          <<"Duration", formatDurationOf(call, "duration_ms")>> >>) >>
  \o When(TruthyStr(call, "transcript"), << Section("transcript", << call.transcript >>) >>)
  \o When(TruthyStr(call, "recording_url"), << Section("recording", << call.recording_url >>) >>)
  \o When(TruthyStr(call, "public_log_url"), << Section("log", << call.public_log_url >>) >>)

\* retell-webhook.js 650-657: the inline text of the call_metadata revision
emailContent_metadata(meta, c) ==
  << Section("details",
       << <<"Caller", Get(c, "name"), Get(meta, "caller_number")>>,
          <<"Agent", Get(meta, "agent_number")>>,
          <<"Duration", IF Has(meta, "call_duration") THEN meta.call_duration ELSE -1, "seconds">>,
          <<"Status", IF Has(meta, "call_status") THEN meta.call_status ELSE "undefined">>,
          <<"Call ID", IF Has(meta, "call_id") THEN meta.call_id ELSE "undefined">> >>) >>

\* ------------------------------------------------------ response bodies
UsageVapi ==
  [status |-> "ok",
   message |-> "This is a webhook endpoint for Vapi AI. Please use POST method to send call data.",
   usage |-> [method |-> "POST", endpoint |-> "/api/vapi-webhook",
              requiredFields |-> <<"id", "status">>, example |-> "unique-call-id"]]
UsageRetell ==
  [status |-> "ok",
   message |-> "This is a webhook endpoint for Retell Voice Agent. Please use POST method to send call data.",
   usage |-> [method |-> "POST", endpoint |-> "/api/retell-webhook",
              requiredFields |-> <<"event", "call">>, example |-> "unique-call-id"]]
MethodNotAllowed ==
  [error |-> "Method not allowed", message |-> "Only POST and GET methods are supported",
   allowedMethods |-> <<"POST", "GET">>]
MissingFlat ==
  [error |-> "Missing required fields",
   message |-> "The request body must include id and status fields", example |-> "unique-call-id"]
MissingEvent ==
  [error |-> "Missing required fields",
   message |-> "The request body must include event and call objects", example |-> "unique-call-id"]
\* the outer catch: error.message of the exception that escaped
Unexpected(details) ==
  [error |-> "Internal server error",
   message |-> "An unexpected error occurred while processing the webhook", details |-> details]
\* a failure body that echoes the transport's credentials
FailedToSend_echoesAuth(error) ==
  [error |-> "Failed to send email", message |-> "Internal server error while sending email",
   details |-> error.message, auth |-> env["GMAIL_CLIENT_SECRET"]]
  @@ (IF Has(error, "code") THEN [code |-> error.code] ELSE EmptyObj)

\* the inner catch around sendEmail; JSON drops code when error.code is undefined
FailedToSend(error) ==
  [error |-> "Failed to send email", message |-> "Internal server error while sending email",
   details |-> error.message]
  @@ (IF Has(error, "code") THEN [code |-> error.code] ELSE EmptyObj)
EmailOf(info) ==
  [message_id |-> info.messageId, accepted |-> info.accepted, rejected |-> info.rejected]
\* an object literal { f: o.f, ... }: JSON drops the undefined ones
Pick(o, fields) == [f \in fields \cap DOMAIN o |-> o[f]]

\* ------------------------------------------------------ steps shared by the handlers
\* a method check that lets PUT through
notPost_putToo(method) == method /= "POST" /\ method /= "PUT"
\* "Only allow POST requests for actual webhook calls": req.method !== 'POST'
notPost(method) == method /= "POST"

\* the step a rejected sendMail leaves in the trace: the provider's error code, if any
Rejected(error) == IF Has(error, "code") THEN "rejected:" \o error.code ELSE "rejected"

\* a handler that writes its response and falls through to write it again
Reply_fallsThrough(status, body, cors, steps) ==
  /\ res' = res \o << [status |-> status, body |-> body, cors |-> cors, json |-> TRUE],
                       [status |-> status, body |-> body, cors |-> cors, json |-> TRUE] >>
  /\ trace' = trace \o steps
  /\ pc' = "responded"
  /\ served' = served

\* return res.status(s).json(body)
Reply(status, body, cors, steps) ==
  /\ res' = Append(res, [status |-> status, body |-> body, cors |-> cors, json |-> TRUE])
  /\ trace' = trace \o steps
  /\ pc' = "responded"
  /\ served' = served

\* return res.status(s).end(): a response without a body
End(status, cors, steps) ==
  /\ res' = Append(res, [status |-> status, body |-> EmptyObj, cors |-> cors, json |-> FALSE])
  /\ trace' = trace \o steps
  /\ pc' = "responded"
  /\ served' = served

\* a collaborator settles with o during the current run; in a second run of
\* the same request it settles as it did in the first
Saw(o) ==
  /\ Len(outcomes) = 2 =>
       /\ Len(outcomes[2]) < Len(outcomes[1])
       /\ o = outcomes[1][Len(outcomes[2]) + 1]
  /\ outcomes' = IF outcomes = << >> THEN outcomes
                 ELSE [outcomes EXCEPT ![Len(outcomes)] = Append(@, o)]

\* the handler suspends at an await
Await(at, steps) ==
  /\ pc' = at
  /\ trace' = trace \o steps
  /\ UNCHANGED <<res, served>>

\* a sendEmail that keeps a record of the calls it has sent a message for
sendEmail_resume_oncePerCall(callerNumber, o, renderThrows, text, html, id, cors) ==
  LET read == IF o.ok THEN o.contacts ELSE << >>
      to == recipientEmail(callerNumber, read)
  IN IF outbox /= << >>
     THEN /\ UNCHANGED <<outbox, contacts>>
          /\ Reply(200, [message |-> "Already notified"], cors, <<"dedupe">>)
     ELSE IF invalidRecipient(to)
     THEN /\ UNCHANGED <<outbox, contacts>>
          /\ Reply(500, FailedToSend([message |-> "Invalid recipient email address"]), cors,
                   <<"resolve", "checkRecipient">>)
     ELSE IF renderThrows
     THEN /\ UNCHANGED <<outbox, contacts>>
          /\ Reply(500, FailedToSend([message |-> "TypeError"]), cors,
                   <<"resolve", "checkRecipient", "renderText">>)
     ELSE IF ~validateGmailConfig
     THEN /\ UNCHANGED <<outbox, contacts>>
          /\ Reply(500, FailedToSend([message |-> "Invalid Gmail configuration"]), cors,
                   <<"resolve", "checkRecipient", "renderText", "config">>)
     ELSE /\ contacts' = read
          /\ outbox' = Append(outbox,
                 [from |-> env["GMAIL_EMAIL"], to |-> to,
                  subject |-> <<"Call Summary - ", id>>, text |-> text, html |-> html])
          /\ Await("sendMail",
                   <<"resolve", "checkRecipient", "renderText", "config", "renderHtml", "sendMail">>)

\* sendEmail from the directory read to the call of transporter.sendMail
\* (part_000 212-266; the copies at part_000 912-960 and retell-webhook.js 228-276
\* differ in the caller field, the renderer and the id field only)
sendEmail_resume(callerNumber, o, renderThrows, text, html, id, cors) ==
  LET read == IF o.ok THEN o.contacts ELSE << >>
      to == recipientEmail(callerNumber, read)
  IN IF invalidRecipient(to)
     THEN /\ UNCHANGED <<outbox, contacts>>
          /\ Reply(500, FailedToSend([message |-> "Invalid recipient email address"]), cors,
                   <<"resolve", "checkRecipient">>)
     ELSE IF renderThrows
     THEN /\ UNCHANGED <<outbox, contacts>>
          /\ Reply(500, FailedToSend([message |-> "TypeError"]), cors,
                   <<"resolve", "checkRecipient", "renderText">>)
     ELSE IF ~validateGmailConfig
     THEN /\ UNCHANGED <<outbox, contacts>>
          /\ Reply(500, FailedToSend([message |-> "Invalid Gmail configuration"]), cors,
                   <<"resolve", "checkRecipient", "renderText", "config">>)
     ELSE /\ contacts' = read
          /\ outbox' = Append(outbox,
                 [from |-> env["GMAIL_EMAIL"], to |-> to,
                  subject |-> <<"Call Summary - ", id>>, text |-> text, html |-> html])
          /\ Await("sendMail",
                   <<"resolve", "checkRecipient", "renderText", "config", "renderHtml", "sendMail">>)

\* ------------------------------------------------------ vapi_enrich (part_000 1-613)
vapiEnrich_handler ==
  /\ pc = "received" /\ req.handler = "vapi_enrich"
  /\ UNCHANGED <<env, parked, req, outbox, callDetails, contacts, contact, fmtIn, fmtOut, outcomes>>
  /\ LET call == req.body IN
     IF req.method = "OPTIONS" THEN End(200, TRUE, <<"cors">>)
     ELSE IF req.method = "GET" THEN Reply(200, UsageVapi, TRUE, <<"cors">>)
     ELSE IF notPost(req.method) THEN Reply(405, MethodNotAllowed, TRUE, <<"cors">>)
     ELSE IF req.isNull THEN Reply(500, Unexpected("TypeError"), TRUE, <<"cors", "validate">>)
     ELSE IF ~TruthyStr(call, "id") \/ ~TruthyStr(call, "status")
     THEN Reply(400, MissingFlat, TRUE, <<"cors", "validate">>)
     ELSE IF trackCallStatus_vapi_throws(call)
     THEN Reply(500, Unexpected("TypeError"), TRUE, <<"cors", "validate", "track">>)
     ELSE IF call.status /= "completed"
     THEN Reply(200, [message |-> "Call received but not processed", status |-> call.status],
                TRUE, <<"cors", "validate", "track", "filter">>)
     ELSE Await("fetch", <<"cors", "validate", "track", "filter", "fetch">>)

\* a sendEmail that goes on with the payload alone when the fetch fails
vapiEnrich_fetchDone_fallback ==
  /\ pc = "fetch" /\ req.handler = "vapi_enrich"
  /\ UNCHANGED <<env, parked, req, outbox, contacts, contact, fmtIn, fmtOut>>
  /\ \E o \in FetchOutcomes :
       Saw(o) /\
       /\ callDetails' = o.data
       /\ Await("readFile", <<"readFile">>)

\* fetchCallDetails returns or throws (part_000 169-200, 206)
vapiEnrich_fetchDone ==
  /\ pc = "fetch" /\ req.handler = "vapi_enrich"
  /\ UNCHANGED <<env, parked, req, outbox, contacts, contact, fmtIn, fmtOut>>
  /\ \E o \in FetchOutcomes :
       Saw(o) /\
       IF o.ok
       THEN /\ callDetails' = o.data
            /\ Await("readFile", <<"readFile">>)
       ELSE /\ callDetails' = callDetails
            /\ Reply(500, FailedToSend(o.error), TRUE, << >>)

\* fs.readFile returns or throws (part_000 212-266)
vapiEnrich_readDone ==
  /\ pc = "readFile" /\ req.handler = "vapi_enrich"
  /\ UNCHANGED <<env, parked, req, callDetails, contact, fmtIn, fmtOut>>
  /\ \E o \in ReadOutcomes :
       Saw(o) /\
       LET call == req.body
           merged == Spread(call, callDetails)
       IN sendEmail_resume(Get(call, "from"), o, FALSE,
                           formatEmailContent_vapiEnrich(merged, "text"),
                           formatEmailContent_vapiEnrich(merged, "html"), call.id, TRUE)

\* the success body of both flat handlers (part_000 562-576, 1091-1105)
vapiSuccess(call, info) ==
  [message |-> "Email sent successfully",
   call |-> [id |-> call.id, duration |-> formatDurationOf(call, "duration"),
             status |-> call.status] @@ Pick(call, {"from", "to"}),
   email |-> EmailOf(info)]

\* transporter.sendMail resolves or rejects (part_000 257-285, 560-601)
vapiEnrich_sendDone ==
  /\ pc = "sendMail" /\ req.handler = "vapi_enrich"
  /\ UNCHANGED <<env, parked, req, outbox, callDetails, contact, fmtIn, fmtOut>>
  /\ contacts' = << >>
  /\ \E o \in SendOutcomes(outbox[Len(outbox)]) :
       Saw(o) /\
       IF o.ok THEN Reply(200, vapiSuccess(req.body, o.info), TRUE, <<"sent">>)
       ELSE Reply(500, FailedToSend(o.error), TRUE, <<Rejected(o.error)>>)

\* ------------------------------------------------------ vapi (part_000 614-1142)
vapi_handler ==
  /\ pc = "received" /\ req.handler = "vapi"
  /\ UNCHANGED <<env, parked, req, outbox, callDetails, contacts, contact, fmtIn, fmtOut, outcomes>>
  /\ LET call == req.body IN
     \* res.status(200).json({}, { headers }): the second argument is ignored
     IF req.method = "OPTIONS" THEN Reply(200, EmptyObj, FALSE, << >>)
     ELSE IF req.method = "GET" THEN Reply(200, UsageVapi, TRUE, <<"cors">>)
     ELSE IF notPost(req.method) THEN Reply(405, MethodNotAllowed, TRUE, <<"cors">>)
     ELSE IF req.isNull THEN Reply(500, Unexpected("TypeError"), TRUE, <<"cors", "validate">>)
     ELSE IF ~TruthyStr(call, "id") \/ ~TruthyStr(call, "status")
     THEN Reply(400, MissingFlat, TRUE, <<"cors", "validate">>)
     ELSE IF trackCallStatus_vapi_throws(call)
     THEN Reply(500, Unexpected("TypeError"), TRUE, <<"cors", "validate", "track">>)
     ELSE IF call.status /= "completed"
     THEN Reply(200, [message |-> "Call received but not processed", status |-> call.status],
                TRUE, <<"cors", "validate", "track", "filter">>)
     ELSE Await("readFile", <<"cors", "validate", "track", "filter", "readFile">>)

vapi_readDone ==
  /\ pc = "readFile" /\ req.handler = "vapi"
  /\ UNCHANGED <<env, parked, req, callDetails, contact, fmtIn, fmtOut>>
  /\ \E o \in ReadOutcomes :
       Saw(o) /\
       LET call == req.body
       IN sendEmail_resume(Get(call, "from"), o, FALSE,
                           formatEmailContent_vapi(call, "text"),
                           formatEmailContent_vapi(call, "html"), call.id, TRUE)

\* a handler that answers with the success message whatever sendMail did
vapi_sendDone_reportsSuccess ==
  /\ pc = "sendMail" /\ req.handler = "vapi"
  /\ UNCHANGED <<env, parked, req, outbox, callDetails, contact, fmtIn, fmtOut>>
  /\ contacts' = << >>
  /\ \E o \in SendOutcomes(outbox[Len(outbox)]) :
       Saw(o) /\
       IF o.ok THEN Reply(200, vapiSuccess(req.body, o.info), TRUE, <<"sent">>)
       ELSE Reply(200, [message |-> "Email sent successfully"], TRUE, <<Rejected(o.error)>>)

vapi_sendDone ==
  /\ pc = "sendMail" /\ req.handler = "vapi"
  /\ UNCHANGED <<env, parked, req, outbox, callDetails, contact, fmtIn, fmtOut>>
  /\ contacts' = << >>
  /\ \E o \in SendOutcomes(outbox[Len(outbox)]) :
       Saw(o) /\
       IF o.ok THEN Reply(200, vapiSuccess(req.body, o.info), TRUE, <<"sent">>)
       ELSE Reply(500, FailedToSend(o.error), TRUE, <<Rejected(o.error)>>)

\* ------------------------------------------------------ retell (retell-webhook.js 1-546)
StrOf(o, f) == IF Has(o, f) THEN o[f] ELSE "undefined"

retell_handler ==
  /\ pc = "received" /\ req.handler = "retell"
  /\ UNCHANGED <<env, parked, req, outbox, callDetails, contacts, contact, fmtIn, fmtOut, outcomes>>
  /\ LET body == req.body IN
     IF req.method = "GET" THEN Reply(200, UsageRetell, FALSE, << >>)
     ELSE IF notPost(req.method) THEN Reply(405, MethodNotAllowed, FALSE, << >>)
     ELSE IF req.isNull THEN Reply(500, Unexpected("TypeError"), FALSE, <<"validate">>)
     ELSE IF ~TruthyStr(body, "event") \/ ~Has(body, "call")
     THEN Reply(400, MissingEvent, FALSE, <<"validate">>)
     ELSE IF trackCallStatus_retell_throws(body.call)
     THEN Reply(500, Unexpected("TypeError"), FALSE, <<"validate", "track">>)
     ELSE IF body.event /= "call_ended" /\ body.event /= "call_analyzed"
     THEN Reply(200, [message |-> "Event received but not processed", event |-> body.event]
                     @@ Pick(body.call, {"call_status"}),
                FALSE, <<"validate", "track", "filter">>)
     ELSE Await("readFile", <<"validate", "track", "filter", "readFile">>)

retell_readDone ==
  /\ pc = "readFile" /\ req.handler = "retell"
  /\ UNCHANGED <<env, parked, req, callDetails, contact, fmtIn, fmtOut>>
  /\ \E o \in ReadOutcomes :
       Saw(o) /\
       LET call == req.body.call
       IN sendEmail_resume(Get(call, "caller_number"), o, costLines_throws(call),
                           formatEmailContent_retell(call),
                           formatEmailContentHtml_retell(call), StrOf(call, "call_id"), FALSE)

\* { id: call_id, status: call_status }: JSON drops the undefined ones
IdAndStatus(call) ==
  (IF Has(call, "call_id") THEN [id |-> call.call_id] ELSE EmptyObj)
  @@ (IF Has(call, "call_status") THEN [status |-> call.call_status] ELSE EmptyObj)

\* retell-webhook.js 492-509
retellSuccess(call, info) ==
  [message |-> "Email sent successfully",
   contact |-> Pick(call, {"name", "email"}),
   call |-> [duration |-> formatDurationOf(call, "duration_ms"),
             cost |-> IF Has(call, "call_cost") THEN formatCost(call.call_cost.combined_cost)
                      ELSE "null"]
            @@ IdAndStatus(call),
   email |-> EmailOf(info)]

retell_sendDone ==
  /\ pc = "sendMail" /\ req.handler = "retell"
  /\ UNCHANGED <<env, parked, req, outbox, callDetails, contact, fmtIn, fmtOut>>
  /\ contacts' = << >>
  /\ \E o \in SendOutcomes(outbox[Len(outbox)]) :
       Saw(o) /\
       IF o.ok THEN Reply(200, retellSuccess(req.body.call, o.info), FALSE, <<"sent">>)
       ELSE Reply(500, FailedToSend(o.error), FALSE, <<Rejected(o.error)>>)

\* ------------------------------------------------------ retell_first (part_001)
\* the transporter is created at module load, with whatever process.env holds
retellFirst_handler ==
  /\ pc = "received" /\ req.handler = "retell_first"
  /\ UNCHANGED <<env, parked, req, callDetails, contacts, fmtIn, fmtOut>>
  /\ LET body == req.body IN
     IF req.method = "GET" THEN UNCHANGED <<outbox, contact, outcomes>> /\ Reply(200, UsageRetell, FALSE, << >>)
     ELSE IF notPost(req.method)
     THEN UNCHANGED <<outbox, contact, outcomes>> /\ Reply(405, MethodNotAllowed, FALSE, << >>)
     ELSE IF req.isNull
     THEN UNCHANGED <<outbox, contact, outcomes>> /\ Reply(500, Unexpected("TypeError"), FALSE, <<"validate">>)
     ELSE IF ~TruthyStr(body, "event") \/ ~Has(body, "call")
     THEN UNCHANGED <<outbox, contact, outcomes>> /\ Reply(400, MissingEvent, FALSE, <<"validate">>)
     ELSE IF body.event /= "call_ended"
     THEN /\ UNCHANGED <<outbox, contact, outcomes>>
          /\ Reply(200, [message |-> "Event received but not processed", event |-> body.event],
                   FALSE, <<"validate", "filter">>)
     ELSE \E o \in ReadOutcomes :
       Saw(o) /\
       IF ~o.ok
       THEN /\ UNCHANGED <<outbox, contact>>
            /\ Reply(500, [error |-> "Failed to read contacts file",
                           message |-> "Internal server error while accessing contacts database"],
                     FALSE, <<"validate", "filter", "readFile">>)
       ELSE IF Len(o.contacts) = 0
       THEN /\ UNCHANGED <<outbox, contact>>
            /\ Reply(500, [error |-> "No contacts configured",
                           message |-> "Please add at least one contact to the database"],
                     FALSE, <<"validate", "filter", "readFile", "resolve">>)
       ELSE /\ contact' = << o.contacts[1] >>
            /\ outbox' = Append(outbox,
                 [from |-> env["GMAIL_EMAIL"], to |-> Get(o.contacts[1], "email"),
                  subject |-> <<"Call Summary - ", StrOf(body.call, "call_id")>>,
                  text |-> emailContent_retellFirst(body.call)])
            /\ Await("sendMail",
                     <<"validate", "filter", "readFile", "resolve", "renderText", "sendMail">>)

retellFirst_sendDone ==
  /\ pc = "sendMail" /\ req.handler = "retell_first"
  /\ UNCHANGED <<env, parked, req, outbox, callDetails, contacts, contact, fmtIn, fmtOut>>
  /\ \E o \in SendOutcomes(outbox[Len(outbox)]) :
       Saw(o) /\
       IF o.ok
       THEN Reply(200, [message |-> "Email sent successfully",
                        contact |-> Pick(contact[1], {"name", "email"}),
                        call |-> [duration |-> formatDurationOf(req.body.call, "duration_ms")]
                                 @@ IdAndStatus(req.body.call)],
                  FALSE, <<"sent">>)
       ELSE Reply(500, [error |-> "Failed to send email",
                        message |-> "Internal server error while sending email",
                        details |-> o.error.message], FALSE, <<Rejected(o.error)>>)

\* ------------------------------------------------------ metadata (retell-webhook.js 547-700)
metadata_handler ==
  /\ pc = "received" /\ req.handler = "metadata"
  /\ UNCHANGED <<env, parked, req, callDetails, contacts, fmtIn, fmtOut>>
  /\ LET body == req.body IN
     IF notPost(req.method)
     THEN UNCHANGED <<outbox, contact, outcomes>> /\ Reply(405, [error |-> "Method not allowed"], FALSE, << >>)
     ELSE IF req.isNull
     THEN /\ UNCHANGED <<outbox, contact, outcomes>>
          /\ Reply(500, [error |-> "Internal server error"], FALSE, <<"validate">>)
     ELSE IF ~Has(body, "call_metadata")
     THEN /\ UNCHANGED <<outbox, contact, outcomes>>
          /\ Reply(400, [error |-> "Missing call_metadata"], FALSE, <<"validate">>)
     ELSE \E o \in ReadOutcomes :
       Saw(o) /\
       LET meta == body.call_metadata
           c == Find(o.contacts, "phone", Get(meta, "caller_number"))
       IN IF ~o.ok
          THEN /\ UNCHANGED <<outbox, contact>>
               /\ Reply(500, [error |-> "Failed to read contacts file"], FALSE,
                        <<"validate", "readFile">>)
          ELSE IF c = << >>
          THEN /\ UNCHANGED <<outbox, contact>>
               /\ Reply(404, [error |-> "Contact not found"], FALSE,
                        <<"validate", "readFile", "resolve">>)
          ELSE /\ contact' = c
               /\ outbox' = Append(outbox,
                    [from |-> env["GMAIL_EMAIL"], to |-> Get(c[1], "email"),
                     subject |-> <<"Call Summary - ", StrOf(meta, "call_id")>>,
                     text |-> emailContent_metadata(meta, c[1])])
               /\ Await("sendMail", <<"validate", "readFile", "resolve", "renderText", "sendMail">>)

metadata_sendDone ==
  /\ pc = "sendMail" /\ req.handler = "metadata"
  /\ UNCHANGED <<env, parked, req, outbox, callDetails, contacts, contact, fmtIn, fmtOut>>
  /\ \E o \in SendOutcomes(outbox[Len(outbox)]) :
       Saw(o) /\
       IF o.ok
       THEN Reply(200, [message |-> "Email sent successfully",
                        contact |-> Pick(contact[1], {"name", "email"})], FALSE, <<"sent">>)
       ELSE Reply(500, [error |-> "Failed to send email"], FALSE, <<Rejected(o.error)>>)

\* ------------------------------------------------------ src/utils/gmail.js
\* what a caller of sendEmail(subject, text) passes
GmailCalls ==
  { [subject |-> <<"Call Summary - ", "c1">>, text |-> "summary of c1"],
    [subject |-> <<"Daily digest">>, text |-> "3 calls today"] }

\* sendEmail(subject, text) to the first await that settles with a message:
\* createTransporter awaits oauth2Client.getAccessToken(), which may reject
gmail_sendEmail ==
  /\ pc = "idle" /\ served < MaxRequests
  /\ UNCHANGED <<env, parked, req, res, callDetails, contacts, contact, fmtIn, fmtOut, outcomes>>
  /\ \E c \in GmailCalls, tokenGranted \in BOOLEAN :
       IF tokenGranted
       THEN /\ outbox' = << [from |-> env["GMAIL_EMAIL"], to |-> env["GMAIL_EMAIL"],
                             subject |-> c.subject, text |-> c.text] >>
            /\ pc' = "gmail_sendMail" /\ trace' = <<"gmail:createTransporter", "gmail:sendMail">>
            /\ served' = served
       ELSE \* the rejection is logged and thrown to the caller
            /\ served' = served + 1
            /\ UNCHANGED <<outbox, pc, trace>>

\* transporter.sendMail settles: { success, messageId } is returned or the error thrown
gmail_sendDone ==
  /\ pc = "gmail_sendMail"
  /\ \E o \in SendOutcomes(outbox[1]) :
       /\ pc' = "idle" /\ outbox' = << >> /\ trace' = << >>
       /\ served' = served + 1
  /\ UNCHANGED <<env, parked, req, res, callDetails, contacts, contact, fmtIn, fmtOut, outcomes>>

\* ------------------------------------------------------ the host runtime
\* the host invokes a handler with the next request
Receive ==
  /\ pc = "idle" /\ served < MaxRequests
  /\ \E r \in Requests : req' = r
  /\ pc' = "received"
  /\ UNCHANGED <<env, parked, res, outbox, trace, callDetails, contacts, contact, served, fmtIn, fmtOut, outcomes>>

\* the handler's promise settles: the request, its response and its locals are gone
Return ==
  /\ pc = "responded"
  /\ pc' = "idle" /\ req' = NoRequest
  /\ res' = << >> /\ outbox' = << >> /\ trace' = << >>
  /\ callDetails' = EmptyObj /\ contacts' = << >> /\ contact' = << >>
  /\ served' = served + 1
  /\ outcomes' = << >>
  /\ UNCHANGED <<env, parked, fmtIn, fmtOut>>

Init ==
  /\ env \in EnvChoices
  /\ pc = "idle" /\ req = NoRequest
  /\ res = << >> /\ outbox = << >> /\ trace = << >>
  /\ callDetails = EmptyObj /\ contacts = << >> /\ contact = << >>
  /\ served = 0
  /\ fmtIn = 0 /\ fmtOut = ""
  /\ outcomes = << >> /\ parked = << >>

\* the steps of the handlers, from the invocation to the response
HandlerStep ==
  \/ vapiEnrich_handler \/ vapiEnrich_fetchDone \/ vapiEnrich_readDone \/ vapiEnrich_sendDone
  \/ vapi_handler \/ vapi_readDone \/ vapi_sendDone
  \/ retell_handler \/ retell_readDone \/ retell_sendDone
  \/ retellFirst_handler \/ retellFirst_sendDone
  \/ metadata_handler \/ metadata_sendDone

Next ==
  \/ Receive \/ Return
  \/ HandlerStep
  \/ gmail_sendEmail \/ gmail_sendDone

Spec == Init /\ [][Next]_vars

\* ------------------------------------------------------ one request, served by two processes
\* the secret values of the configuration
SecretVars == {"GMAIL_CLIENT_ID", "GMAIL_CLIENT_SECRET", "GMAIL_REFRESH_TOKEN", "VAPI_API_KEY"}
SecretValues(v) == { << >>, <<v>>, <<v, "rotated">> }

\* the configurations of the first process: complete, or without GMAIL_CLIENT_ID
SecretsEnvs ==
  { e \in EnvChoices :
      /\ e["DEFAULT_EMAIL"] = OpsEmail /\ e["TZ"] = <<"UTC">>
      /\ \A v \in GmailVars \ {"GMAIL_CLIENT_ID"} : e[v] /= << >> }

SecretsInit ==
  /\ env \in SecretsEnvs
  /\ pc = "idle" /\ req = NoRequest
  /\ res = << >> /\ outbox = << >> /\ trace = << >>
  /\ callDetails = EmptyObj /\ contacts = << >> /\ contact = << >>
  /\ served = 0
  /\ fmtIn = 0 /\ fmtOut = ""
  /\ outcomes = << << >> >> /\ parked = << >>

\* a second process, whose configuration differs in one secret, is handed the
\* same request; the first response is kept for comparison
Rerun ==
  /\ pc = "responded" /\ Len(outcomes) = 1
  /\ \E v \in SecretVars : \E x \in SecretValues(v) \ {env[v]} :
       /\ env' = [env EXCEPT ![v] = x]
       /\ trace' = << IF v \in GmailVars /\ (x = << >> \/ env[v] = << >>)
                      THEN "restart:set/unset" ELSE "restart:rotated" >>
  /\ pc' = "received"
  /\ outbox' = << >> /\ callDetails' = EmptyObj /\ contacts' = << >> /\ contact' = << >>
  /\ outcomes' = Append(outcomes, << >>)
  /\ UNCHANGED <<req, res, served, fmtIn, fmtOut, parked>>

SecretsNext == Receive \/ HandlerStep \/ Rerun
SecretsSpec == SecretsInit /\ [][SecretsNext]_vars

\* ------------------------------------------------------ two invocations in one process
\* one completed call from the same caller, to every handler
ConcurrentRequests ==
  { r \in Requests :
      /\ r.method = "POST" /\ ~r.isNull
      /\ r.body \in
           { [id |-> "c1", status |-> "completed", from |-> P2digits, duration |-> 65000],
             [event |-> "call_ended",
              call |-> WithField(RetellBase("ended"), "caller_number", P2digits)],
             [call_metadata |->
                [caller_number |-> P2digits, agent_number |-> P2digits, call_duration |-> 65,
                 call_status |-> "completed", call_id |-> "m1"]] } }

\* a complete configuration
ConcurrentEnvs ==
  { e \in EnvChoices :
      /\ e["DEFAULT_EMAIL"] = OpsEmail /\ e["TZ"] = <<"UTC">>
      /\ \A v \in GmailVars : e[v] /= << >> }

ConcurrentInit ==
  /\ env \in ConcurrentEnvs
  /\ pc = "idle" /\ req = NoRequest
  /\ res = << >> /\ outbox = << >> /\ trace = << >>
  /\ callDetails = EmptyObj /\ contacts = << >> /\ contact = << >>
  /\ served = 0
  /\ fmtIn = 0 /\ fmtOut = ""
  /\ outcomes = << << >> >> /\ parked = << >>

\* the request is handed to the handler once more, after it was served alone;
\* the first response and the first message are kept for comparison
RunAgain ==
  /\ pc = "responded" /\ Len(outcomes) = 1
  /\ pc' = "received" /\ trace' = << >>
  /\ callDetails' = EmptyObj /\ contacts' = << >> /\ contact' = << >>
  /\ outcomes' = Append(outcomes, << >>)
  /\ UNCHANGED <<env, req, res, outbox, served, fmtIn, fmtOut, parked>>

\* the awaits of the handlers, where the event loop may run another invocation
AwaitPoints == {"fetch", "readFile", "sendMail"}

\* what an invocation holds while it is suspended: its request, its response
\* object and the locals of its closures
Context ==
  [pc |-> pc, req |-> req, res |-> res, outbox |-> outbox, trace |-> trace,
   callDetails |-> callDetails, contacts |-> contacts, contact |-> contact,
   log |-> outcomes[Len(outcomes)]]

\* while the request awaits, the host invokes a handler with another request
StartOther ==
  /\ Len(outcomes) = 2 /\ pc \in AwaitPoints /\ parked = << >>
  /\ parked' = << Context >>
  /\ \E r \in ConcurrentRequests : req' = r
  /\ pc' = "received"
  /\ res' = << >> /\ outbox' = << >> /\ trace' = << >>
  /\ callDetails' = EmptyObj /\ contacts' = << >> /\ contact' = << >>
  /\ outcomes' = Append(outcomes, << >>)
  /\ UNCHANGED <<env, served, fmtIn, fmtOut>>

\* an event loop whose invocations share the variable callDetails
Switch_sharedDetails ==
  /\ parked /= << >> /\ pc \in AwaitPoints \cup {"responded"} /\ parked[1].pc \in AwaitPoints
  /\ parked' = << Context >>
  /\ pc' = parked[1].pc /\ req' = parked[1].req /\ res' = parked[1].res
  /\ outbox' = parked[1].outbox /\ trace' = parked[1].trace
  /\ callDetails' = callDetails
  /\ contacts' = parked[1].contacts /\ contact' = parked[1].contact
  /\ outcomes' = IF Len(outcomes) = 3 THEN SubSeq(outcomes, 1, 2)
                 ELSE Append(outcomes, parked[1].log)
  /\ UNCHANGED <<env, served, fmtIn, fmtOut>>

\* the running invocation awaits or has answered, and the event loop resumes
\* the suspended one
Switch ==
  /\ parked /= << >> /\ pc \in AwaitPoints \cup {"responded"} /\ parked[1].pc \in AwaitPoints
  /\ parked' = << Context >>
  /\ pc' = parked[1].pc /\ req' = parked[1].req /\ res' = parked[1].res
  /\ outbox' = parked[1].outbox /\ trace' = parked[1].trace
  /\ callDetails' = parked[1].callDetails
  /\ contacts' = parked[1].contacts /\ contact' = parked[1].contact
  /\ outcomes' = IF Len(outcomes) = 3 THEN SubSeq(outcomes, 1, 2)
                 ELSE Append(outcomes, parked[1].log)
  /\ UNCHANGED <<env, served, fmtIn, fmtOut>>

\* data/contacts.json is not written by the program: it is unreadable or holds
\* at most one entry here, and every read of it, by either invocation, settles
\* in the same way
ConcurrentFiles == { o \in ReadOutcomes : Len(o.contacts) <= 1 }
ReadsOf(log) == { log[k] : k \in { k \in 1..Len(log) : Has(log[k], "contacts") } }
Logs == outcomes \o (IF parked /= << >> THEN << parked[1].log >> ELSE << >>)
SameFile ==
  LET reads == UNION { ReadsOf(Logs[i]) : i \in 1..Len(Logs) }
  IN reads \subseteq ConcurrentFiles /\ Cardinality(reads) <= 1

ConcurrentStep == HandlerStep /\ SameFile'
ConcurrentNext ==
  \/ Receive /\ req' \in ConcurrentRequests
  \/ ConcurrentStep
  \/ RunAgain \/ StartOther \/ Switch
ConcurrentSpec == ConcurrentInit /\ [][ConcurrentNext]_vars

\* ------------------------------------------------------ one call, delivered twice
\* after a call_ended event was answered, the provider sends the call_analyzed
\* event of the same call
FollowUp ==
  /\ pc = "responded" /\ Len(outcomes) = 1
  /\ req.handler \in {"retell_first", "retell"} /\ req.method = "POST" /\ ~req.isNull
  /\ StrOf(req.body, "event") = "call_ended" /\ Has(req.body, "call")
  /\ req' = [req EXCEPT !.body = [event |-> "call_analyzed", call |-> req.body.call]]
  /\ pc' = "received" /\ trace' = <<"followUp">>
  /\ callDetails' = EmptyObj /\ contacts' = << >> /\ contact' = << >>
  /\ outcomes' = Append(outcomes, << >>)
  /\ UNCHANGED <<env, res, outbox, served, fmtIn, fmtOut, parked>>

RedeliveryNext == Receive \/ HandlerStep \/ RunAgain \/ FollowUp
RedeliverySpec == ConcurrentInit /\ [][RedeliveryNext]_vars

\* ------------------------------------------------------ the formatting helpers alone
DurationInputs == { k * 500 + r : k \in 0..MaxHalfSeconds, r \in {0, 1, 499} }

\* the revisions that render with formatEmailContent and formatEmailContentHtml
SendEmailRevisions == {"vapi_enrich", "vapi", "retell"}
\* the complete configurations
FormatEnvs == { e \in EnvChoices : \A v \in EnvVars : e[v] /= << >> /\ e[v] /= NoAtEmail }

FormatInit ==
  /\ env \in FormatEnvs
  /\ pc = "format" /\ req = NoRequest
  /\ res = << >> /\ outbox = << >> /\ trace = << >>
  /\ callDetails = EmptyObj /\ contacts = << >> /\ contact = << >>
  /\ served = 0
  /\ fmtIn \in DurationInputs /\ fmtOut = ""
  /\ outcomes = << >> /\ parked = << >>

FormatDuration ==
  /\ pc = "format" /\ fmtOut = ""
  /\ fmtOut' = formatDuration(fmtIn)
  /\ UNCHANGED <<env, parked, pc, req, res, outbox, trace, callDetails, contacts, contact, served, fmtIn, outcomes>>

\* formatCost applied to fmtIn thousandths of a dollar
FormatCost ==
  /\ pc = "format" /\ fmtOut = ""
  /\ fmtOut' = formatCost(fmtIn) /\ pc' = "formatCost"
  /\ UNCHANGED <<env, parked, req, res, outbox, trace, callDetails, contacts, contact, served, fmtIn, outcomes>>

\* the call records whose costs are fmtIn
CostedFlat ==
  [id |-> "c1", status |-> "completed", cost |-> fmtIn, startTime |-> 1000, endTime |-> 66000]
CostedCall ==
  Spread(RetellBase("ended"),
         [start_timestamp |-> 1000, end_timestamp |-> 66000,
          call_cost |-> [combined_cost |-> fmtIn, total_duration_unit_price |-> 2500,
                         product_costs |-> << [product |-> "llm", cost |-> fmtIn],
                                              [product |-> "tts", cost |-> 40] >>]])

\* formatEmailContent and formatEmailContentHtml of one revision, applied to such a record
ReportOf(revision) ==
  IF revision = "vapi_enrich"
  THEN [of |-> revision, text |-> formatEmailContent_vapiEnrich(CostedFlat, "text"),
        html |-> formatEmailContent_vapiEnrich(CostedFlat, "html")]
  ELSE IF revision = "vapi"
  THEN [of |-> revision, text |-> formatEmailContent_vapi(CostedFlat, "text"),
        html |-> formatEmailContent_vapi(CostedFlat, "html")]
  ELSE [of |-> revision, text |-> formatEmailContent_retell(CostedCall),
        html |-> formatEmailContentHtml_retell(CostedCall)]

FormatReport ==
  /\ pc = "format" /\ fmtOut = "" /\ outbox = << >>
  /\ \E revision \in SendEmailRevisions : outbox' = <<ReportOf(revision)>>
  /\ pc' = "formatReport"
  /\ UNCHANGED <<env, parked, req, res, trace, callDetails, contacts, contact, served, fmtIn, fmtOut, outcomes>>

\* the process is started again, in a configuration that may differ
Restart ==
  /\ pc = "formatReport"
  /\ env' \in FormatEnvs /\ pc' = "restarted"
  /\ UNCHANGED <<req, res, outbox, trace, callDetails, contacts, contact, served, fmtIn, fmtOut,
                 outcomes, parked>>

\* the same record is rendered again
FormatReportAgain ==
  /\ pc = "restarted"
  /\ outbox' = Append(outbox, ReportOf(outbox[1].of)) /\ pc' = "formatReportAgain"
  /\ UNCHANGED <<env, parked, req, res, trace, callDetails, contacts, contact, served, fmtIn, fmtOut, outcomes>>

FormatNext == FormatDuration \/ FormatCost \/ FormatReport \/ Restart \/ FormatReportAgain
FormatSpec == FormatInit /\ [][FormatNext]_vars

\* ====================================================== properties
Did(step) == \E i \in 1..Len(trace) : trace[i] = step
Responded == pc = "responded"
FlatHandlers == {"vapi_enrich", "vapi"}
EventHandlers == {"retell_first", "retell"}
\* the handlers whose recipient is resolved by sendEmail
SendEmailHandlers == {"vapi_enrich", "vapi", "retell"}
InFlight == req.handler \in Handlers

\* the body lacks the fields that define its shape
LacksRequired ==
  /\ InFlight /\ req.method = "POST"
  /\ \/ req.isNull
     \/ req.handler \in FlatHandlers
          /\ (~TruthyStr(req.body, "id") \/ ~TruthyStr(req.body, "status"))
     \/ req.handler \in EventHandlers
          /\ (~TruthyStr(req.body, "event") \/ ~Has(req.body, "call"))
     \/ req.handler = "metadata" /\ ~Has(req.body, "call_metadata")

PassesValidation == InFlight /\ req.method = "POST" /\ ~LacksRequired

\* the status or event of the request is a completion one
CompletionStatuses == {"completed", "ended"}
IsCompletion ==
  /\ PassesValidation
  /\ \/ req.handler \in FlatHandlers /\ req.body.status = "completed"
     \/ req.handler \in EventHandlers /\ req.body.event \in {"call_ended", "call_analyzed"}
     \/ req.handler = "metadata"
          /\ StrOf(req.body.call_metadata, "call_status") \in CompletionStatuses

\* the caller number the request carries, UNDEF when it carries none
CallerOf ==
  IF req.handler \in FlatHandlers THEN Get(req.body, "from")
  ELSE IF req.handler \in EventHandlers THEN Get(req.body.call, "caller_number")
  ELSE Get(req.body.call_metadata, "caller_number")

ValidAddress(a) == TruthySeq(a) /\ Includes(a, "@")

\* C1: a POST whose body lacks the shape-defining fields is answered 400, and
\* neither the directory is read nor sendMail invoked for it.
C1_MissingFieldsGive400 ==
  LacksRequired =>
    /\ pc \in {"received", "responded"}
    /\ outbox = << >> /\ ~Did("readFile") /\ ~Did("sendMail")
    /\ Responded => res[1].status = 400

\* C2: a POST that passes validation and whose status or event is not a
\* completion one is answered 200 "received but not processed" and nothing is
\* handed to sendMail.
C2_NonCompletionIgnored ==
  (PassesValidation /\ ~IsCompletion) =>
    /\ outbox = << >> /\ ~Did("sendMail")
    /\ Responded =>
         /\ res[1].status = 200
         /\ res[1].body.message \in {"Call received but not processed",
                                     "Event received but not processed"}

\* what "no further processing" rules out
NoProcessing ==
  /\ pc \in {"received", "responded"}
  /\ outbox = << >>
  /\ \A step \in {"validate", "track", "filter", "fetch", "readFile", "resolve", "sendMail"} :
       ~Did(step)

\* C3 as stated: every method other than POST and GET, OPTIONS included, is
\* answered 405 by every handler, with no further processing.
C3_OtherMethodsGive405 ==
  (InFlight /\ req.method \notin {"POST", "GET"}) =>
    /\ NoProcessing
    /\ Responded => res[1].status = 405

PreflightAnswered == req.method = "OPTIONS" /\ req.handler \in FlatHandlers

\* C3 amended: every method other than POST and GET is answered 405 with no
\* further processing, except that the two flat-shape handlers answer OPTIONS
\* with 200 and an empty body, also with no further processing.
C3_OtherMethodsGive405_ExceptPreflight ==
  (InFlight /\ req.method \notin {"POST", "GET"}) =>
    /\ NoProcessing
    /\ Responded =>
         IF PreflightAnswered THEN res[1].status = 200 /\ res[1].body = EmptyObj
         ELSE res[1].status = 405 /\ res[1].body.error = "Method not allowed"

C3_Witness ==
  /\ Responded /\ req.method = "PUT" /\ req.handler = "retell" /\ res[1].status = 405

\* the digits of a string: what stripping every non-digit character leaves
IsDigit(ch) == ch \in {"0","1","2","3","4","5","6","7","8","9"}
Digits(s) == SelectSeq(s, IsDigit)

\* the first directory entry whose number has the caller's digits
DigitMatch ==
  FirstAt(contacts, { i \in 1..Len(contacts) :
     TruthySeq(Get(contacts[i], "number")) /\ Digits(contacts[i].number) = Digits(CallerOf) })

\* C4: numbers are compared after stripping the non-digit characters, so the
\* mail of a completed call goes to the first entry whose digits are the caller's.
C4_PunctuationInsensitiveMatch ==
  (pc = "sendMail" /\ req.handler \in SendEmailHandlers /\ TruthySeq(CallerOf)
     /\ DigitMatch /= << >> /\ ValidAddress(Get(DigitMatch[1], "email")))
  => outbox[1].to = DigitMatch[1].email

\* C5: when sendMail rejects with a provider error carrying a code, the response
\* is 500 with that code in its body, and sendMail was invoked once.
C5_RejectionCodeSurfaced ==
  (Responded /\ Did("rejected:EAUTH")) =>
    /\ res[1].status = 500
    /\ Has(res[1].body, "code") /\ res[1].body.code = "EAUTH"
    /\ Len(outbox) = 1

DirectoryErrors == {"Failed to read contacts file", "No contacts configured", "Contact not found"}
AbortedOnDirectory ==
  Responded /\ res[1].status \in {404, 500} /\ res[1].body.error \in DirectoryErrors

\* the caller has no entry with an email in the directory sendEmail read
NoMatch ==
  \/ ~TruthySeq(CallerOf)
  \/ \A i \in 1..Len(contacts) :
        Get(contacts[i], "number") /= CallerOf \/ ~TruthySeq(Get(contacts[i], "email"))

\* C6 as stated: no completed-call POST is aborted because the caller is
\* absent or unmatched or the directory unreadable; the mail goes to the default.
C6_NeverAbortedOnDirectory ==
  IsCompletion =>
    /\ ~AbortedOnDirectory
    /\ (pc = "sendMail" /\ req.handler \in SendEmailHandlers /\ NoMatch)
         => outbox[1].to = DEFAULT_EMAIL

\* C6 amended: in the handlers that resolve the recipient in sendEmail, an
\* absent caller, a missing match or an unreadable directory never aborts the
\* request and the message is addressed to the default recipient; the
\* call_metadata handler and the first event/call handler hand a message to
\* sendMail only for a contact they found, and abort otherwise.
C6_DefaultRecipientInSendEmail ==
  IsCompletion =>
    /\ req.handler \in SendEmailHandlers =>
         /\ ~AbortedOnDirectory
         /\ (pc = "sendMail" /\ NoMatch) => outbox[1].to = DEFAULT_EMAIL
    /\ req.handler \notin SendEmailHandlers =>
         /\ outbox /= << >> => (contact /= << >> /\ outbox[1].to = Get(contact[1], "email"))
         /\ (req.handler = "metadata" /\ outbox /= << >>)
              => Get(contact[1], "phone") = CallerOf

C6_Witness ==
  /\ pc = "sendMail" /\ req.handler = "vapi" /\ IsCompletion
  /\ CallerOf = P1digits /\ Len(contacts) = 1 /\ Get(contacts[1], "number") = P1punct /\ NoMatch
  /\ outbox[1].to = OpsEmail

\* C7: nothing is handed to sendMail with a recipient that is empty or has no "@".
C7_RecipientHasAt ==
  \A i \in 1..Len(outbox) : ValidAddress(outbox[i].to)

\* C8: with a required configuration value absent, a completed-call POST fails
\* with 500, nothing is handed to sendMail, and the check comes before any
\* fetch, directory read, resolution or rendering.
C8_ConfigCheckedEagerly ==
  (IsCompletion /\ missingVars /= {}) =>
    /\ outbox = << >>
    /\ \A step \in {"fetch", "readFile", "resolve", "renderText", "sendMail"} : ~Did(step)
    /\ Responded => res[1].status = 500

\* C9: with no match and no valid default recipient configured, nothing is
\* handed to sendMail; no message ever goes to the built-in placeholder.
C9_NoPlaceholderRecipient ==
  (req.handler \in SendEmailHandlers /\ ~ValidAddress(env["DEFAULT_EMAIL"])) =>
    /\ \A i \in 1..Len(outbox) : outbox[i].to /= Placeholder
    /\ (pc = "sendMail" => ~NoMatch)

\* C10: for every non-negative integer ms, formatDuration(ms) is "{M}m {S}s"
\* with M = floor(ms / 60000) and S = floor(ms / 1000) mod 60, so that
\* 0 <= S <= 59 and M * 60 + S = floor(ms / 1000); 125000 gives "2m 5s" and
\* 0 gives "0m 0s".
C10_FormatDuration ==
  (pc = "format" /\ fmtOut /= "") =>
    LET M == fmtIn \div 60000
        S == (fmtIn \div 1000) % 60
    IN /\ fmtOut = ToString(M) \o "m " \o ToString(S) \o "s"
       /\ 0 <= S /\ S <= 59 /\ M * 60 + S = fmtIn \div 1000
       /\ fmtIn = 125000 => fmtOut = "2m 5s"
       /\ fmtIn = 0 => fmtOut = "0m 0s"

C10_Witness == pc = "format" /\ fmtIn = 125000 /\ fmtOut = "2m 5s"

\* s is "$", a whole number of dollars, "." and exactly two digits, and is the
\* amount nearest to mills thousandths of a dollar
IsCostOf(s, mills) ==
  \E a \in 0..(mills \div 1000 + 1), d1 \in 0..9, d2 \in 0..9 :
    /\ s = "$" \o ToString(a) \o "." \o ToString(d1) \o ToString(d2)
    /\ (a * 100 + d1 * 10 + d2) * 10 - mills \in -5..5

\* the sections of a report that carry a given name
SectionsNamed(report, name) == SelectSeq(report, LAMBDA x : x.section = name)

\* the cost lines a report of the costs c must show, each amount in the format
CostLinesShown(lines, r) ==
  IF r = "retell"
  THEN /\ Len(lines) = 4
       /\ lines[1][1] = "Total Cost" /\ IsCostOf(lines[1][2], fmtIn)
       /\ lines[2][1] = "Duration Cost" /\ IsCostOf(lines[2][2], 2500)
       /\ lines[3][1] = "llm" /\ IsCostOf(lines[3][2], fmtIn)
       /\ lines[4][1] = "tts" /\ IsCostOf(lines[4][2], 40)
  ELSE /\ Len(lines) = 1
       /\ lines[1][1] = "Total Cost" /\ IsCostOf(lines[1][2], fmtIn)

\* C11: formatCost renders a numeric cost as "$" and the amount with exactly
\* two decimal places (12.5 gives "$12.50"), and every cost a report shows
\* (total, duration cost, each product cost) is rendered in that format.
C11_CostsHaveTwoDecimals ==
  /\ pc = "formatCost" =>
       /\ IsCostOf(fmtOut, fmtIn)
       /\ fmtIn = 12500 => fmtOut = "$12.50"
  /\ pc = "formatReport" =>
       \A kind \in {"text", "html"} :
         LET shown == SectionsNamed(outbox[1][kind], "cost")
         IN \A i \in 1..Len(shown) : CostLinesShown(shown[i].lines, outbox[1].of)

C11_Witness ==
  /\ pc = "formatReport" /\ fmtIn = 12500 /\ outbox[1].of = "retell"
  /\ SectionsNamed(outbox[1].html, "cost") /= << >>
  /\ SectionsNamed(outbox[1].text, "cost")[1].lines[1] = <<"Total Cost", "$12.50">>

\* the record the reports of the request in flight are rendered from
Rendered ==
  IF req.handler = "vapi_enrich" THEN Spread(req.body, callDetails)
  ELSE IF req.handler = "vapi" THEN req.body
  ELSE req.body.call

\* the optional sections of a report and the fields each one shows
OptionalSections ==
  IF req.handler \in FlatHandlers
  THEN { [section |-> "summary", fields |-> {"summary"}],
         [section |-> "logs", fields |-> {"logs"}],
         [section |-> "metadata", fields |-> {"metadata"}],
         [section |-> "cost", fields |-> {"cost"}],
         [section |-> "transcript", fields |-> {"transcript"}],
         [section |-> "recording", fields |-> {"recordingUrl"}] }
  ELSE { [section |-> "analysis", fields |-> {"call_analysis"}],
         [section |-> "cost", fields |-> {"call_cost"}],
         [section |-> "transcript", fields |-> {"transcript"}],
         [section |-> "links", fields |-> {"recording_url", "public_log_url"}] }

\* C12: in the text and in the HTML report, each optional section (analysis,
\* cost, logs, metadata, transcript, recording/links) is rendered if and only
\* if its field is present in the call record, a cost of 0 or an empty string
\* included; an absent field leaves neither body nor header.
C12_SectionsIffPresent ==
  (pc = "sendMail" /\ req.handler \in SendEmailHandlers) =>
    \A kind \in {"text", "html"} : \A p \in OptionalSections :
      (SectionsNamed(outbox[1][kind], p.section) /= << >>)
        <=> (\E f \in p.fields : Has(Rendered, f))

\* C13: rendering is a function of the call record alone: two renderings of
\* the same payload give the same text and the same HTML, whenever and in
\* whichever process configuration or locale they run.
C13_RenderingDeterministic ==
  pc = "formatReportAgain" =>
    /\ outbox[2].text = outbox[1].text
    /\ outbox[2].html = outbox[1].html

\* C14: a GET request to any endpoint is answered 200 with
\* {status: "ok", message, usage: {method, endpoint, requiredFields, example}},
\* with no validation, directory read or dispatch.
C14_GetGivesUsage ==
  (InFlight /\ req.method = "GET") =>
    /\ NoProcessing
    /\ Responded =>
         /\ res[1].status = 200
         /\ DOMAIN res[1].body = {"status", "message", "usage"}
         /\ res[1].body.status = "ok"
         /\ DOMAIN res[1].body.usage = {"method", "endpoint", "requiredFields", "example"}

\* C15: every response of every endpoint carries the permissive CORS headers,
\* and an OPTIONS request is answered 200 with an empty body and those
\* headers, without further processing.
C15_CorsOnEveryResponse ==
  (InFlight /\ Responded) =>
    /\ res[1].cors
    /\ req.method = "OPTIONS" =>
         /\ res[1].status = 200 /\ res[1].body = EmptyObj
         /\ NoProcessing

\* C16: every 4xx or 5xx response body holds both an error string and a
\* message, and no response body holds a stack trace.
C16_FailuresCarryErrorAndMessage ==
  (InFlight /\ Responded) =>
    /\ res[1].status >= 400 => (Has(res[1].body, "error") /\ Has(res[1].body, "message"))
    /\ ~Has(res[1].body, "stack")

\* C17 as stated: whatever the method, the body and the failures of the
\* collaborators, the handler completes with exactly one JSON response and
\* no exception escapes it.
C17_ExactlyOneJsonResponse ==
  InFlight =>
    /\ pc /= "responded" => (res = << >> /\ ENABLED HandlerStep)
    /\ Responded => (Len(res) = 1 /\ res[1].json)

\* C17 amended: the handler completes with exactly one response and no
\* exception escapes it; the response is a JSON one, except that the first
\* flat-shape handler ends its answer to OPTIONS without a body.
C17_ExactlyOneResponse ==
  InFlight =>
    /\ pc /= "responded" => (res = << >> /\ ENABLED HandlerStep)
    /\ Responded =>
         /\ Len(res) = 1
         /\ res[1].json <=> ~(req.handler = "vapi_enrich" /\ req.method = "OPTIONS")

C17_Witness ==
  /\ Responded /\ req.handler = "retell" /\ Did("renderText")
  /\ Len(res) = 1 /\ res[1].status = 500 /\ res[1].body.details = "TypeError"

\* C18: on a successful dispatch the 200 response's email object is the
\* transport's result unchanged (message_id, accepted, rejected), in every
\* handler that dispatches mail.
C18_TransportResultSurfaced ==
  (InFlight /\ Responded /\ Did("sent")) =>
    /\ res[1].status = 200
    /\ Has(res[1].body, "email")
    /\ \E o \in SendOutcomes(outbox[1]) :
         /\ o.ok
         /\ res[1].body.email = [message_id |-> o.info.messageId,
                                  accepted |-> o.info.accepted, rejected |-> o.info.rejected]

\* the call id of the record the reports of the request in flight are rendered from
RenderedId ==
  IF req.handler \in FlatHandlers THEN StrOf(Rendered, "id")
  ELSE IF req.handler \in EventHandlers THEN StrOf(req.body.call, "call_id")
  ELSE StrOf(req.body.call_metadata, "call_id")

\* C19: every message passed to sendMail has from = the configured account,
\* to = the resolved recipient, subject = "Call Summary - " and the call id of
\* the record that was rendered, and both a text and an HTML body.
C19_MessageFields ==
  \A i \in 1..Len(outbox) :
    LET m == outbox[i] IN
    /\ m.from = env["GMAIL_EMAIL"]
    /\ Has(m, "text") /\ Has(m, "html")
    /\ m.subject[1] = "Call Summary - "
    /\ InFlight => m.subject = <<"Call Summary - ", RenderedId>>
    /\ (pc = "sendMail" /\ req.handler \in SendEmailHandlers)
         => m.to = recipientEmail(CallerOf, contacts)

\* both processes have answered the request
BothAnswered == pc = "responded" /\ Len(res) = 2

\* C20 as stated: two runs that differ only in GMAIL_CLIENT_SECRET,
\* GMAIL_REFRESH_TOKEN, GMAIL_CLIENT_ID or VAPI_API_KEY, with the same request
\* and the same collaborator outcomes, give identical responses.
C20_ResponsesIgnoreSecrets ==
  BothAnswered => res[2] = res[1]

\* C20 amended: two runs that differ only in the value of a secret, each
\* Gmail secret being set in both or unset in both, give identical responses,
\* on the dispatch-failure and configuration-error paths too.
C20_ResponsesIgnoreSecretValues ==
  (BothAnswered /\ trace[1] = "restart:rotated") => res[2] = res[1]

C20_Witness ==
  /\ BothAnswered /\ trace[1] = "restart:rotated"
  /\ env["GMAIL_CLIENT_SECRET"] = <<"GMAIL_CLIENT_SECRET", "rotated">>
  /\ res[2].status = 500 /\ res[2].body.error = "Failed to send email"
  /\ Did("rejected:EAUTH")

\* a configuration with which a message can be sent to the default recipient
Configured == validateGmailConfig /\ ValidAddress(env["DEFAULT_EMAIL"])

\* the request ended because a collaborator failed or the directory has no
\* usable entry for it
CollaboratorFailed ==
  /\ Responded
  /\ \/ \E i \in 1..Len(trace) : trace[i] \in {"rejected", "rejected:EAUTH"}
     \/ req.handler = "vapi_enrich" /\ trace[Len(trace)] = "fetch"
     \/ Get(res[1].body, "error") \in DirectoryErrors
     \/ Get(res[1].body, "details") = "Invalid recipient email address"

\* a line of the details that shows the value JavaScript prints for a missing one
ErrorLine(line) ==
  \/ line[1] = "Duration" /\ (IF Len(line) = 3 THEN line[2] = -1 ELSE line[2] = "NaNm NaNs")
  \/ line[1] \in {"Started", "Ended"} /\ line[2] = <<"Invalid Date">>
  \/ line[1] \in {"Call ID", "Status", "Type"} /\ line[2] = "undefined"

ReportsOf(m) == <<m.text>> \o (IF Has(m, "html") THEN <<m.html>> ELSE << >>)

\* C21: for a POST with the required fields and a completion status or event,
\* the absence of optional fields never makes the request fail: when the
\* collaborators succeed it ends in 200 with one dispatch, and no line of the
\* report shows an absent field as an error value.
C21_OptionalFieldsNeverFail ==
  (IsCompletion /\ Configured) =>
    /\ (Responded /\ ~CollaboratorFailed) =>
         (res[1].status = 200 /\ Len(outbox) = 1 /\ Did("sent"))
    /\ \A i \in 1..Len(outbox) : \A r \in 1..Len(ReportsOf(outbox[i])) :
         LET details == ReportsOf(outbox[i])[r][1].lines
         IN \A l \in 1..Len(details) : ~ErrorLine(details[l])

\* step a was run before step b for the request in flight
Before(a, b) == \E i \in 1..Len(trace) : \E j \in (i + 1)..Len(trace) : trace[i] = a /\ trace[j] = b
Times(step) == Cardinality({ i \in 1..Len(trace) : trace[i] = step })

\* C22: sendMail is invoked only after validation, the completion filter,
\* recipient resolution and the rendering of the report have completed, in
\* that order; no stage is entered twice and exactly one terminal state is
\* reached.
C22_StagesInOrder ==
  InFlight =>
    /\ \A i \in 1..Len(trace) : Times(trace[i]) = 1
    /\ (outbox /= << >>) <=> Did("sendMail")
    /\ Did("sendMail") =>
         /\ Before("validate", "filter") /\ Before("filter", "resolve")
         /\ Before("resolve", "renderText") /\ Before("renderText", "sendMail")
         /\ Has(outbox[1], "html") => Before("renderHtml", "sendMail")
    /\ IF Responded THEN Len(res) = 1 ELSE res = << >>

\* the handlers that call trackCallStatus
TrackingHandlers == {"vapi_enrich", "vapi", "retell"}

\* the request ended in trackCallStatus: with the call removed it would have
\* gone on to the completion filter
EndedInTracking == Responded /\ Len(trace) > 0 /\ trace[Len(trace)] = "track"

\* C23: logging and trackCallStatus are observability only: the response and
\* the dispatch are what they would be with those calls removed, so no request
\* ends in trackCallStatus, and a non-completion event is answered "received
\* but not processed" whatever the fields that only the log entry reads.
C23_TrackingIsSideEffectFree ==
  (InFlight /\ req.handler \in TrackingHandlers) =>
    /\ ~EndedInTracking
    /\ (Responded /\ PassesValidation /\ ~IsCompletion) =>
         /\ res[1].status = 200
         /\ res[1].body.message \in {"Call received but not processed",
                                     "Event received but not processed"}

\* the request that was served alone has been answered again
AnsweredAgain == Len(outcomes) = 2 /\ pc = "responded" /\ Len(res) = 2

\* C24: concurrent invocations do not interfere: whatever the interleaving
\* with another request at the awaits, the response of a request and the
\* message dispatched for it are those it gives when it runs alone, and a
\* request whose sendMail never completes does not keep another from completing.
C24_NoInterference ==
  /\ AnsweredAgain =>
       /\ res[2] = res[1]
       /\ Len(outbox) \in {0, 2}
       /\ Len(outbox) = 2 => outbox[2] = outbox[1]
  /\ (Len(outcomes) >= 2 /\ pc \in AwaitPoints \cup {"received"}) => ENABLED ConcurrentStep

C24_Witness ==
  /\ AnsweredAgain /\ req.handler = "vapi_enrich"
  /\ res[2].status = 200 /\ Len(outbox) = 2
  /\ parked /= << >> /\ parked[1].pc = "sendMail" /\ parked[1].req.handler = "vapi_enrich"
  /\ parked[1].callDetails /= callDetails

\* the entries of the directory sendEmail read that carry the caller's number
Matches == { i \in 1..Len(contacts) : Get(contacts[i], "number") = CallerOf }

\* the recipient the first match gives: its email, or the default without one
FirstMatchRecipient(c) == IF TruthySeq(Get(c, "email")) THEN c.email ELSE DEFAULT_EMAIL

\* C25: when several entries carry the caller's number the message goes to
\* the email of the first of them in directory order; later duplicates never
\* matter, so a first match without an email gives the default recipient even
\* when a later duplicate has one.
C25_FirstMatchWins ==
  (pc = "sendMail" /\ TruthySeq(CallerOf)) =>
    /\ (req.handler \in SendEmailHandlers /\ Matches /= {}) =>
         outbox[1].to = FirstMatchRecipient(FirstAt(contacts, Matches)[1])
    /\ req.handler = "metadata" =>
         /\ Get(contact[1], "phone") = CallerOf
         /\ outbox[1].to = FirstMatchRecipient(contact[1])

\* the place of a section in the order the claim gives: header,
\* analysis/summary, cost, logs, metadata, transcript, recording link
ClaimedRank(name) ==
  CASE name = "details" -> 1
    [] name \in {"summary", "analysis"} -> 2
    [] name = "cost" -> 3
    [] name = "logs" -> 4
    [] name = "metadata" -> 5
    [] name = "transcript" -> 6
    [] name \in {"recording", "links"} -> 7
    [] name = "log" -> 8
    [] name = "footer" -> 9

\* its place in the order of the renderers: the cost follows logs and metadata
RenderedRank(name) ==
  CASE name = "details" -> 1
    [] name \in {"summary", "analysis"} -> 2
    [] name = "logs" -> 3
    [] name = "metadata" -> 4
    [] name = "cost" -> 5
    [] name = "transcript" -> 6
    [] name \in {"recording", "links"} -> 7
    [] name = "log" -> 8
    [] name = "footer" -> 9

\* the reports handed to sendMail for the request in flight
ReportsSent ==
  IF InFlight
  THEN UNION { { ReportsOf(outbox[i])[r] : r \in 1..Len(ReportsOf(outbox[i])) } : i \in 1..Len(outbox) }
  ELSE {}

\* C26 as stated: in the text and the HTML report the sections present appear
\* in the order header, analysis/summary, cost breakdown, logs, metadata,
\* transcript, recording link; in particular cost precedes logs and metadata.
C26_SectionsInClaimedOrder ==
  \A report \in ReportsSent : \A i \in 1..Len(report) : \A j \in (i + 1)..Len(report) :
    ClaimedRank(report[i].section) < ClaimedRank(report[j].section)

\* C26 amended: the sections present always appear in the order header,
\* analysis/summary, logs, metadata, cost, transcript, recording link: no
\* input makes two sections change places, and the cost follows logs and metadata.
C26_SectionsInFixedOrder ==
  \A report \in ReportsSent : \A i \in 1..Len(report) : \A j \in (i + 1)..Len(report) :
    RenderedRank(report[i].section) < RenderedRank(report[j].section)

C26_Witness ==
  /\ pc = "sendMail" /\ req.handler = "vapi_enrich"
  /\ \A kind \in {"text", "html"} :
       \E i \in 1..Len(outbox[1][kind]) : \E j \in (i + 1)..Len(outbox[1][kind]) :
         /\ outbox[1][kind][i].section = "logs" /\ outbox[1][kind][j].section = "cost"
         /\ \E k \in (j + 1)..Len(outbox[1][kind]) : outbox[1][kind][k].section = "transcript"

\* what the collaborators did during the current run of the request
CurrentLog == IF outcomes = << >> THEN << >> ELSE outcomes[Len(outcomes)]

\* the enrichment fetch of the request in flight failed
FetchFailed ==
  /\ req.handler = "vapi_enrich" /\ CurrentLog /= << >>
  /\ CurrentLog[1] \in FetchOutcomes /\ ~CurrentLog[1].ok

\* C27: in the enriching handler the fetch is the first step of sendEmail and
\* its failure is terminal: the request ends in 500 "Failed to send email",
\* the directory is not read, no report is rendered, sendMail is not invoked,
\* and the fetch is not tried again.
C27_FetchFailureIsTerminal ==
  /\ (req.handler = "vapi_enrich" /\ CurrentLog /= << >>) =>
       (CurrentLog[1] \in FetchOutcomes /\ Times("fetch") = 1)
  /\ (req.handler = "vapi_enrich" /\ pc = "fetch") =>
       (outbox = << >> /\ ~Did("readFile") /\ ~Did("resolve") /\ ~Did("renderText"))
  /\ FetchFailed =>
       /\ Responded /\ Len(CurrentLog) = 1
       /\ res[Len(res)].status = 500
       /\ res[Len(res)].body.error = "Failed to send email"
       /\ res[Len(res)].body.details = CurrentLog[1].error.message
       /\ outbox = << >>
       /\ \A step \in {"readFile", "resolve", "renderText", "renderHtml", "sendMail", "sent"} :
            ~Did(step)

C27_Witness ==
  /\ FetchFailed /\ Responded /\ Len(res) = 1
  /\ res[1].body.details = "Vapi API error: 500" /\ outbox = << >>

\* what the details of a report show under a label
Shown(report, label) ==
  LET lines == report[1].lines
  IN lines[CHOOSE i \in 1..Len(lines) : lines[i][1] = label][2]

\* field f of the enrichment object if it has one, of the payload otherwise
Enriched(f) == IF Has(callDetails, f) THEN callDetails[f] ELSE req.body[f]

\* C28: in the enriching handler the enrichment object is merged over the
\* payload for rendering only: its fields override the payload's in the text
\* and the HTML body, while the recipient, the subject and the response use
\* the payload's from and id; so the id of the subject is the id of the body
\* whenever the enrichment object has no id or the same id.
C28_EnrichmentForRenderingOnly ==
  (req.handler = "vapi_enrich" /\ Len(outbox) = 1) =>
    LET call == req.body
        m == outbox[1]
    IN /\ \A kind \in {"text", "html"} :
            /\ Shown(m[kind], "Call ID") = Enriched("id")
            /\ Shown(m[kind], "Caller") =
                 (IF TruthySeq(Get(Spread(call, callDetails), "from")) THEN Enriched("from")
                  ELSE <<"Unknown">>)
            /\ Has(callDetails, "summary") =>
                 SectionsNamed(m[kind], "summary")[1].lines = << callDetails.summary >>
       /\ pc = "sendMail" => m.to = recipientEmail(Get(call, "from"), contacts)
       /\ m.subject = <<"Call Summary - ", call.id>>
       /\ (~Has(callDetails, "id") \/ callDetails.id = call.id) =>
            m.subject[2] = Shown(m.text, "Call ID")
       /\ (Responded /\ Did("sent")) =>
            /\ res[1].body.call.id = call.id
            /\ Get(res[1].body.call, "from") = Get(call, "from")

C28_Witness ==
  /\ pc = "sendMail" /\ req.handler = "vapi_enrich"
  /\ callDetails = [id |-> "other", from |-> P2digits] /\ Get(req.body, "from") = P1digits
  /\ Len(contacts) = 1 /\ Get(contacts[1], "name") = "Alice"
  /\ outbox[1].to = OpsEmail /\ outbox[1].subject = <<"Call Summary - ", "c1">>
  /\ Shown(outbox[1].html, "Call ID") = "other"

\* the second delivery is the call_analyzed event that follows a call_ended one
IsFollowUp == Len(trace) > 0 /\ trace[1] = "followUp"

SaysSent ==
  /\ res[1].status = 200
  /\ Has(res[1].body, "message") /\ res[1].body.message = "Email sent successfully"

\* C30: on every path of every handler sendMail is invoked at most once for a
\* request, and the response is 200 "Email sent successfully" if and only if
\* that invocation completed without error.
C30_SuccessIffSent ==
  InFlight =>
    /\ Len(outbox) <= 1 /\ Times("sendMail") <= 1
    /\ Did("sent") => (Responded /\ Len(outbox) = 1 /\ Before("sendMail", "sent"))
    /\ Responded => (SaysSent <=> Did("sent"))

C30_Witness ==
  /\ InFlight /\ Responded /\ req.handler = "metadata"
  /\ Did("sent") /\ SaysSent /\ Len(outbox) = 1

====
